---- MODULE Spec2Model ----
(***************************************************************************)
(* NRL Picks 2.0 (nrl_picks_v2.py): the Elo rating engine (run_elo), the   *)
(* grid tuner (tune_elo), the probability utilities (logistic,             *)
(* devig_two_way), the stake calculator (kelly_fraction) and the pick      *)
(* aggregator (main).                                                      *)
(*                                                                         *)
(* Numbers.  Python floats are modelled as reals.  The transcendental      *)
(* functions (math.log, 10.0**x) are computed in fixed point with S units  *)
(* per 1.0; ratings, probabilities coming out of logistic and the log-loss *)
(* are fixed-point integers.  Everything the aggregator computes from a    *)
(* model probability and the quoted prices (de-vig, edges, Kelly) is exact *)
(* rational arithmetic on normalised fractions [n |-> num, d |-> den].     *)
(* The attribute access r.as of run_elo is read as the column "as".        *)
(***************************************************************************)
EXTENDS Integers, Sequences, FiniteSets, TLC

VARIABLES
    pc,        \* position of the running function
    hist,      \* the completed-match history (df / hist)
    ratings,   \* run_elo's / main's rating mapping
    ll,        \* run_elo's accumulated log-loss
    n,         \* run_elo's count of processed rows
    i,         \* rows of the history already replayed by run_elo
    best,      \* tune_elo's incumbent loss, <<>> for None
    params,    \* tune_elo's / main's tuning parameters
    gi,        \* grid candidates already tried by tune_elo
    events,    \* main's list of upcoming events
    idx,       \* events already processed by main's loop
    rows,      \* main's collected recommendation records
    loc,       \* main's locals after the latest loop iteration
    out,       \* the sorted frame df of main
    cfg,       \* the environment's configuration
    kin,       \* arguments of a kelly_fraction call
    kout       \* result of that call, <<>> before it

vars == <<pc, hist, ratings, ll, n, i, best, params, gi,
          events, idx, rows, loc, out, cfg, kin, kout>>

(***************************************************************************)
(* Bounds of the model.                                                    *)
(***************************************************************************)
MaxHist   == 2    \* rows of a history replayed step by step
MaxBooks  == 2    \* bookmakers of one event
MaxEvents == 2    \* events of one odds response
ProbSteps == 4    \* kelly_fraction is tried on p = a/ProbSteps
OddsSteps == 6    \* kelly_fraction is tried on prices 0.50 * j, j <= OddsSteps

Names == {"A", "B"}
Scores == 0..1

(***************************************************************************)
(* Fixed point: S units per 1.0.                                           *)
(***************************************************************************)
S == 10 * 10 * 10
LN2 == 693              \* ln 2 in fixed point
LN10 == 2303            \* ln 10 in fixed point
Eps == 1                \* eps=1e-9: the smallest positive fixed-point value
BASE == 1500            \* the default rating
DEFAULT_HFA == 60       \* main's HFA without history

Abs(x) == IF x < 0 THEN -x ELSE x
Max(a, b) == IF a >= b THEN a ELSE b
FMul(a, b) == (a * b) \div S

RECURSIVE Pow2(_)
Pow2(k) == IF k = 0 THEN 1 ELSE 2 * Pow2(k - 1)

\* e^t: range reduction by ln 2, then a degree-5 Taylor polynomial
Exp(t) ==
    LET k  == t \div LN2
        r  == t - k * LN2
        t2 == FMul(r, r) \div 2
        t3 == FMul(t2, r) \div 3
        t4 == FMul(t3, r) \div 4
        t5 == FMul(t4, r) \div 5
        e  == S + r + t2 + t3 + t4 + t5
    IN  IF k >= 0 THEN e * Pow2(k) ELSE e \div Pow2(-k)

RECURSIVE LnNorm(_, _)
LnNorm(x, k) ==
    IF x >= 2 * S THEN LnNorm(x \div 2, k + 1)
    ELSE IF x < S THEN LnNorm(2 * x, k - 1)
    ELSE <<x, k>>

\* math.log(x), x > 0: x = m * 2^k with 1 <= m < 2, ln m = 2 atanh((m-1)/(m+1))
Ln(x) ==
    LET nk == LnNorm(x, 0)
        m  == nk[1]
        z  == ((m - S) * S) \div (m + S)
        z2 == FMul(z, z)
        z3 == FMul(z2, z)
        z5 == FMul(z3, z2)
        z7 == FMul(z5, z2)
    IN  nk[2] * LN2 + 2 * (z + z3 \div 3 + z5 \div 5 + z7 \div 7)

\* logistic(x) = 1.0/(1.0+10.0**(-x/400.0))
logistic(x) == (S * S) \div (S + Exp((-x * LN10) \div (400 * S)))

(***************************************************************************)
(* Rating Engine.                                                          *)
(***************************************************************************)
\* ratings.get(name, 1500.0)
Get(r, name) == IF name \in DOMAIN r THEN r[name] ELSE BASE * S

\* ratings[name] = v
Put(r, name, v) ==
    [x \in DOMAIN r \cup {name} |-> IF x = name THEN v ELSE r[x]]

Outcome(r) ==
    IF r.hs = r.as THEN S \div 2 ELSE IF r.hs > r.as THEN S ELSE 0

\* the home rating written by one row
HomeRating(rh, d) == rh + d

\* the away rating written by one row
AwayRating(ra, d) == ra - d

\* one iteration of run_elo's loop on the state st = (ratings, ll, n)
EloUpdate(st, r, K, HFA) ==
    LET rh     == Get(st.ratings, r.home)
        ra     == Get(st.ratings, r.away)
        p_home == logistic((rh - ra) + HFA * S)
        y      == Outcome(r)
        margin == Abs(r.hs - r.as)
        k_eff  == K * (S + Ln((1 + margin) * S))
        d      == FMul(k_eff, y - p_home)
        r1     == Put(st.ratings, r.home, HomeRating(rh, d))
        r2     == Put(r1, r.away, AwayRating(ra, d))
    IN  [ratings |-> r2,
         ll      |-> st.ll - (FMul(y, Ln(Max(p_home, Eps)))
                              + FMul(S - y, Ln(Max(S - p_home, Eps)))),
         n       |-> st.n + 1]

EloStart == [ratings |-> <<>>, ll |-> 0, n |-> 0]

RECURSIVE EloFold(_, _, _, _, _)
EloFold(st, df, k, K, HFA) ==
    IF k > Len(df) THEN st
    ELSE EloFold(EloUpdate(st, df[k], K, HFA), df, k + 1, K, HFA)

\* ll/max(n,1)
MeanLoss(st) == st.ll \div Max(st.n, 1)

\* run_elo(df, K, HFA) -> (ratings, loss)
run_elo(df, K, HFA) ==
    LET st == EloFold(EloStart, df, 1, K, HFA)
    IN  [ratings |-> st.ratings, loss |-> MeanLoss(st)]

(***************************************************************************)
(* Hyperparameter Tuner.                                                   *)
(***************************************************************************)
GridK   == <<15, 25, 35>>
GridHFA == <<40, 60, 80>>
GridSize == Len(GridK) * Len(GridHFA)

\* the g-th candidate, K outer and HFA inner
Candidate(g) ==
    [K   |-> GridK[((g - 1) \div Len(GridHFA)) + 1],
     HFA |-> GridHFA[((g - 1) % Len(GridHFA)) + 1]]

\* the test with <=, which lets a later equal loss replace the incumbent
ImprovesTies(b, loss) == b = <<>> \/ loss <= b[1]
\* best is None or loss<best
Improves(b, loss) == b = <<>> \/ loss < b[1]

\* one iteration of tune_elo's loops on acc = (best, params)
TuneUpdate(acc, g, df) ==
    LET c    == Candidate(g)
        loss == run_elo(df, c.K, c.HFA).loss
    IN  IF Improves(acc.best, loss)
        THEN [best |-> <<loss>>, params |-> c]
        ELSE acc

TuneStart == [best |-> <<>>, params |-> [K |-> 30, HFA |-> 60]]

RECURSIVE TuneFold(_, _, _)
TuneFold(acc, g, df) ==
    IF g > GridSize THEN acc ELSE TuneFold(TuneUpdate(acc, g, df), g + 1, df)

\* tune_elo(df) -> params
tune_elo(df) == TuneFold(TuneStart, 1, df).params

(***************************************************************************)
(* Exact rationals [n |-> numerator, d |-> denominator > 0], normalised.   *)
(* None is <<>> and a present value x is <<x>>.                            *)
(***************************************************************************)
None == <<>>
Some(x) == <<x>>

RECURSIVE GCD(_, _)
GCD(a, b) == IF b = 0 THEN a ELSE GCD(b, a % b)

Rat(num, den) ==
    LET sg == IF den < 0 THEN -1 ELSE 1
        g  == GCD(Abs(num), Abs(den))
    IN  [n |-> (sg * num) \div g, d |-> (sg * den) \div g]

Zero == Rat(0, 1)
One  == Rat(1, 1)
LCM(a, b) == (a \div GCD(a, b)) * b
RAdd(x, y) ==
    LET l == LCM(x.d, y.d) IN Rat(x.n * (l \div x.d) + y.n * (l \div y.d), l)
RSub(x, y) ==
    LET l == LCM(x.d, y.d) IN Rat(x.n * (l \div x.d) - y.n * (l \div y.d), l)
RMul(x, y) ==
    LET a == Rat(x.n, y.d)
        b == Rat(y.n, x.d)
    IN  Rat(a.n * b.n, a.d * b.d)
RDiv(x, y) == RMul(x, Rat(y.d, y.n))
RLe(x, y) ==
    LET l == LCM(x.d, y.d) IN x.n * (l \div x.d) <= y.n * (l \div y.d)
RLt(x, y) == ~RLe(y, x)
RMax(x, y) == IF RLe(y, x) THEN x ELSE y
RMin(x, y) == IF RLe(x, y) THEN x ELSE y

RECURSIVE Pow10(_)
Pow10(k) == IF k = 0 THEN 1 ELSE 10 * Pow10(k - 1)

\* round(x, digits): to the nearest multiple of 10^-digits, halves to even
Round(x, digits) ==
    LET q   == RMul(x, Rat(Pow10(digits), 1))
        fl  == q.n \div q.d
        rem == q.n - fl * q.d
        up  == 2 * rem > q.d \/ (2 * rem = q.d /\ fl % 2 = 1)
    IN  Rat(IF up THEN fl + 1 ELSE fl, Pow10(digits))

\* a fixed-point value as a rational
FromFixed(x) == Rat(x, S)

\* a decimal price quoted in hundredths as a rational
Price(c) == Rat(c, 100)

(***************************************************************************)
(* Probability utilities and stake calculator.                             *)
(***************************************************************************)
\* isinstance(x,(int,float))
IsNumber(x) == x # None

\* the de-vig accepting a price of exactly 1.0
devig_two_way_lax(a, b) ==
    IF ~(IsNumber(a) /\ IsNumber(b)) THEN <<None, None>>
    ELSE IF a[1] < 100 \/ b[1] < 100 THEN <<None, None>>
    ELSE LET pa == RDiv(One, Price(a[1]))
             pb == RDiv(One, Price(b[1]))
             s  == RAdd(pa, pb)
         IN  <<Some(RDiv(pa, s)), Some(RDiv(pb, s))>>

\* the de-vig returning the raw implied probabilities
devig_two_way_raw(a, b) ==
    IF ~(IsNumber(a) /\ IsNumber(b)) THEN <<None, None>>
    ELSE IF a[1] <= 100 \/ b[1] <= 100 THEN <<None, None>>
    ELSE <<Some(RDiv(One, Price(a[1]))), Some(RDiv(One, Price(b[1])))>>

\* devig_two_way(a,b): a, b are None or <<price in hundredths>>
devig_two_way(a, b) ==
    IF ~(IsNumber(a) /\ IsNumber(b)) THEN <<None, None>>
    ELSE IF a[1] <= 100 \/ b[1] <= 100 THEN <<None, None>>
    ELSE LET pa == RDiv(One, Price(a[1]))
             pb == RDiv(One, Price(b[1]))
             s  == RAdd(pa, pb)
         IN  <<Some(RDiv(pa, s)), Some(RDiv(pb, s))>>

\* kelly_fraction(p,odds,k): p, k rationals, odds in hundredths, cap MAX_KELLY
\* the fraction without its floor
KellyFloorOff(x) == x
\* max(0.0, x)
KellyFloor(x) == RMax(Zero, x)
\* the fraction without its cap
KellyCapOff(f, cap) == f
\* min(f, MAX_KELLY)
KellyCap(f, cap) == RMin(f, cap)
Kelly(p, odds, k, cap) ==
    IF odds <= 100 THEN Zero
    ELSE LET b == RSub(Price(odds), One)
             f == RDiv(RSub(RMul(p, RAdd(b, One)), One), b)
         IN  KellyCap(KellyFloor(RMul(k, f)), cap)
kelly_fraction(p, odds, k) == Kelly(p, odds, k, cfg.MAX_KELLY)

(***************************************************************************)
(* Pick Aggregator: the body of main's loop over the events.               *)
(* An event is [home, away, commence_time, bookmakers]; a missing or empty *)
(* team name is ""; commence_time is in seconds.  A bookmaker is           *)
(* [key, markets], a market [key, outcomes] with outcomes the dict d of    *)
(* line 115, name -> None or <<price in hundredths>>.                      *)
(***************************************************************************)
NoBook == "None"

\* d.get(name)
Quote(m, name) == IF name \in DOMAIN m.outcomes THEN m.outcomes[name] ELSE None

\* the test with >=, which lets a later bookmaker take over an equal price
BetterOrEqual(ph, cur) == IsNumber(ph) /\ (cur = None \/ ph[1] >= cur[1])
\* isinstance(ph,(int,float)) and (best is None or ph>best)
Better(ph, cur) == IsNumber(ph) /\ (cur = None \/ ph[1] > cur[1])

\* lines 114-118 on b = (best_home, book_h, best_away, book_a)
ScanMarket(b, m, bkey, home, away) ==
    IF m.key # "h2h" THEN b
    ELSE LET ph == Quote(m, home)
             pa == Quote(m, away)
             b1 == IF Better(ph, b.best_home)
                   THEN [b EXCEPT !.best_home = ph, !.book_h = bkey] ELSE b
         IN  IF Better(pa, b1.best_away)
             THEN [b1 EXCEPT !.best_away = pa, !.book_a = bkey] ELSE b1

RECURSIVE ScanMarkets(_, _, _, _, _, _)
ScanMarkets(b, ms, k, bkey, home, away) ==
    IF k > Len(ms) THEN b
    ELSE ScanMarkets(ScanMarket(b, ms[k], bkey, home, away),
                     ms, k + 1, bkey, home, away)

RECURSIVE ScanBooks(_, _, _, _, _)
ScanBooks(b, bks, k, home, away) ==
    IF k > Len(bks) THEN b
    ELSE ScanBooks(ScanMarkets(b, bks[k].markets, 1, bks[k].key, home, away),
                   bks, k + 1, home, away)

\* lines 110-118
BestOfMarket(ev) ==
    ScanBooks([best_home |-> None, book_h |-> NoBook,
               best_away |-> None, book_a |-> NoBook],
              ev.bookmakers, 1, ev.home, ev.away)

\* to_aest(ts).strftime("%Y-%m-%d %H:%M"): the AEST (UTC+10) minute; the
\* strings order as the minutes do
KickoffStr(ts) == (ts + 36000) \div 60

\* the comparison with >, which gives a tie to AWAY
PicksHomeStrict(edge_home, edge_away) == RLt(edge_away, edge_home)
\* edge_home>=edge_away
PicksHome(edge_home, edge_away) == RLe(edge_away, edge_home)

\* not (edge<EDGE_MIN)
ClearsMin(edge, edge_min) == ~RLt(edge, edge_min)

\* lines 128-131
PickSide(l) ==
    IF PicksHome(l.edge_home[1], l.edge_away[1])
    THEN [l EXCEPT !.side = Some("HOME"), !.p = l.p_home, !.price = l.best_home,
                   !.mp = l.m_home, !.edge = l.edge_home,
                   !.book = l.book_h, !.sel = l.home]
    ELSE [l EXCEPT !.side = Some("AWAY"), !.p = l.p_away, !.price = l.best_away,
                   !.mp = l.m_away, !.edge = l.edge_away,
                   !.book = l.book_a, !.sel = l.away]

\* lines 138-153; ko and edge are the contest's kickoff instant and the
\* unrounded edge, kept beside the written columns; the money columns derived
\* from stake_frac and BANKROLL are left out
Record(l) ==
    [Kickoff  |-> KickoffStr(l.ko[1]),
     Match    |-> <<l.home[1], l.away[1]>>,
     Pick     |-> <<l.side[1], l.sel[1]>>,
     Book     |-> l.book[1],
     BestOdds |-> l.price[1],
     MarketP  |-> Round(l.mp[1], 4),
     ModelP   |-> Round(l.p[1], 4),
     Edge     |-> Round(l.edge[1], 4),
     KellyPct |-> Round(RMul(l.stake_frac[1], Rat(100, 1)), 2),
     ko       |-> l.ko[1],
     edge     |-> l.edge[1]]

LocFields == {"stage", "home", "away", "ko", "best_home", "book_h", "best_away",
              "book_a", "m_home", "m_away", "p_home", "p_away", "edge_home",
              "edge_away", "side", "p", "price", "mp", "edge", "book", "sel",
              "stake_frac"}
NoLocals == [f \in LocFields |-> IF f = "stage" THEN "none" ELSE None]

\* the order with ascending=[True,True]
SortsBeforeAscEdge(a, b) ==
    a.Kickoff < b.Kickoff \/ (a.Kickoff = b.Kickoff /\ RLt(a.Edge, b.Edge))
\* sort_values(["Kickoff (AEST)","Edge"], ascending=[True,False]): a goes
\* strictly before b
SortsBefore(a, b) ==
    a.Kickoff < b.Kickoff \/ (a.Kickoff = b.Kickoff /\ RLt(b.Edge, a.Edge))

\* x put into the sorted s behind everything that does not come after it
RECURSIVE Insert(_, _)
Insert(s, x) ==
    IF s = <<>> THEN <<x>>
    ELSE IF SortsBefore(x, Head(s)) THEN <<x>> \o s
    ELSE <<Head(s)>> \o Insert(Tail(s), x)

\* the stable sort of the rows
RECURSIVE SortValues(_)
SortValues(s) ==
    IF s = <<>> THEN <<>>
    ELSE Insert(SortValues(SubSeq(s, 1, Len(s) - 1)), s[Len(s)])

(***************************************************************************)
(* Inputs.                                                                 *)
(***************************************************************************)
Match(h, a, hs, as) == [home |-> h, away |-> a, hs |-> hs, as |-> as]

Matches ==
    {Match(h, a, x, y) : h \in Names, a \in Names, x \in Scores, y \in Scores}

RECURSIVE SeqsUpTo(_, _)
SeqsUpTo(X, k) ==
    IF k = 0 THEN {<<>>}
    ELSE LET shorter == SeqsUpTo(X, k - 1)
         IN  shorter \cup {Append(q, x) : q \in {t \in shorter : Len(t) = k - 1}, x \in X}

\* the histories the rating engine and the tuner are run on
Histories == SeqsUpTo(Matches, MaxHist)

\* the histories main is run on: none, a home win, an away win
TrainHists == {<<>>, <<Match("A", "B", 1, 0)>>, <<Match("A", "B", 0, 1)>>}

\* the defaults of lines 13-16
DefaultCfg == [KELLY_FACTOR |-> Rat(1, 2), EDGE_MIN |-> Rat(2, 100),
               MAX_KELLY |-> Rat(2, 100)]
Configs == {DefaultCfg}

BookKeys == <<"bk1", "bk2", "bk3", "bk4">>
Quotes == {None, <<100>>, <<150>>, <<250>>}
Kickoffs == {0, 30, 60}
SlatePrices == {207, 293}

H2H(o) == [key |-> "h2h", outcomes |-> o]
ShopMarkets ==
    {H2H(o) : o \in [Names -> Quotes]}
    \cup {[key |-> "spreads", outcomes |-> [x \in Names |-> <<250>>]]}

\* k bookmakers in input order, one market each
RECURSIVE BookLists(_)
BookLists(k) ==
    IF k = 0 THEN {<<>>}
    ELSE {Append(q, [key |-> BookKeys[k], markets |-> <<m>>]) :
              q \in BookLists(k - 1), m \in ShopMarkets}

Event(h, a, t, bks) ==
    [home |-> h, away |-> a, commence_time |-> t, bookmakers |-> bks]

\* one contest, shopped over up to MaxBooks bookmakers
ShopEvents ==
    {Event(h, a, 0, bks) : h \in Names \cup {""}, a \in Names \cup {""},
                           bks \in UNION {BookLists(k) : k \in 0..MaxBooks}}

\* a contest of a slate: one bookmaker quoting both sides
SlateEvents ==
    {Event(pr[1], pr[2], t,
           <<[key |-> BookKeys[1],
              markets |-> <<H2H([x \in Names |-> IF x = pr[1] THEN <<c>> ELSE <<d>>])>>]>>) :
        pr \in {q \in Names \X Names : q[1] # q[2]}, t \in Kickoffs,
        c \in SlatePrices, d \in SlatePrices}

\* what fetch_odds returns
OddsResponses ==
    SeqsUpTo(SlateEvents, MaxEvents) \cup {<<e>> : e \in ShopEvents}

(***************************************************************************)
(* Actions.                                                                *)
(***************************************************************************)
Idle == [K |-> 0, HFA |-> 0]

\* main, lines 94-95: no history
NoHistory ==
    /\ pc = "start" /\ hist = <<>>
    /\ ratings' = <<>> /\ params' = [HFA |-> DEFAULT_HFA]
    /\ pc' = "fetch"
    /\ UNCHANGED <<hist, ll, n, i, best, gi, events, idx, rows, loc, out, cfg, kin, kout>>

\* main, line 97: the call of tune_elo
CallTune ==
    /\ pc = "start" /\ hist # <<>>
    /\ best' = TuneStart.best /\ params' = TuneStart.params /\ gi' = 0
    /\ pc' = "tune"
    /\ UNCHANGED <<hist, ratings, ll, n, i, events, idx, rows, loc, out, cfg, kin, kout>>

\* tune_elo, lines 84-87: one candidate of the grid
TuneStep ==
    /\ pc = "tune" /\ gi < GridSize
    /\ LET acc == TuneUpdate([best |-> best, params |-> params], gi + 1, hist)
       IN  best' = acc.best /\ params' = acc.params
    /\ gi' = gi + 1
    /\ UNCHANGED <<pc, hist, ratings, ll, n, i, events, idx, rows, loc, out, cfg, kin, kout>>

\* tune_elo returns (line 88) and main calls run_elo with the result (line 97)
TuneReturn ==
    /\ pc = "tune" /\ gi = GridSize
    /\ ratings' = EloStart.ratings /\ ll' = EloStart.ll /\ n' = EloStart.n /\ i' = 0
    /\ pc' = "replay"
    /\ UNCHANGED <<hist, best, params, gi, events, idx, rows, loc, out, cfg, kin, kout>>

\* run_elo, lines 71-79: one row
EloStep ==
    /\ pc = "replay" /\ i < Len(hist)
    /\ LET st == EloUpdate([ratings |-> ratings, ll |-> ll, n |-> n],
                           hist[i + 1], params.K, params.HFA)
       IN  ratings' = st.ratings /\ ll' = st.ll /\ n' = st.n
    /\ i' = i + 1
    /\ UNCHANGED <<pc, hist, best, params, gi, events, idx, rows, loc, out, cfg, kin, kout>>

\* run_elo returns (line 80)
EloReturn ==
    /\ pc = "replay" /\ i = Len(hist)
    /\ pc' = "fetch"
    /\ UNCHANGED <<hist, ratings, ll, n, i, best, params, gi, events, idx, rows, loc, out, cfg, kin, kout>>

\* main, line 101: fetch_odds returns
FetchOdds ==
    /\ pc = "fetch"
    /\ \E evs \in OddsResponses : events' = evs
    /\ idx' = 0 /\ rows' = <<>>
    /\ pc' = "loop"
    /\ UNCHANGED <<hist, ratings, ll, n, i, best, params, gi, loc, out, cfg, kin, kout>>

\* main, lines 102-103: fetch_odds raises
FetchOddsError ==
    /\ pc = "fetch"
    /\ events' = <<>>
    /\ idx' = 0 /\ rows' = <<>>
    /\ pc' = "loop"
    /\ UNCHANGED <<hist, ratings, ll, n, i, best, params, gi, loc, out, cfg, kin, kout>>

\* main, lines 105-119: the next event, its teams, kickoff and best prices
ScanEvent ==
    /\ pc = "loop" /\ idx < Len(events)
    /\ \E ev \in {events[idx + 1]} :
         IF ev.home = "" \/ ev.away = ""
         THEN /\ loc' = [loc EXCEPT !.stage = "no_team",
                                    !.home = Some(ev.home), !.away = Some(ev.away)]
              /\ idx' = idx + 1 /\ pc' = "loop"
         ELSE \E b \in {BestOfMarket(ev)} :
                /\ loc' = [loc EXCEPT
                             !.stage = IF b.best_home = None \/ b.best_away = None
                                       THEN "no_price" ELSE "scanned",
                             !.home = Some(ev.home), !.away = Some(ev.away),
                             !.ko = Some(ev.commence_time),
                             !.best_home = b.best_home, !.book_h = Some(b.book_h),
                             !.best_away = b.best_away, !.book_a = Some(b.book_a)]
                /\ IF b.best_home = None \/ b.best_away = None
                   THEN idx' = idx + 1 /\ pc' = "loop"
                   ELSE idx' = idx /\ pc' = "devig"
    /\ UNCHANGED <<hist, ratings, ll, n, i, best, params, gi, events, rows, out, cfg, kin, kout>>

\* main, lines 121-126: the fair probabilities, the model's and the edges
PriceEvent ==
    /\ pc = "devig"
    /\ \E m \in {devig_two_way(loc.best_home, loc.best_away)} :
         IF m[1] = None
         THEN /\ loc' = [loc EXCEPT !.stage = "no_devig",
                                    !.m_home = m[1], !.m_away = m[2]]
              /\ idx' = idx + 1 /\ pc' = "loop"
         ELSE \E ph \in {FromFixed(logistic((Get(ratings, loc.home[1])
                                              - Get(ratings, loc.away[1]))
                                             + params.HFA * S))} :
                /\ loc' = [loc EXCEPT !.stage = "priced",
                                      !.m_home = m[1], !.m_away = m[2],
                                      !.p_home = Some(ph),
                                      !.p_away = Some(RSub(One, ph)),
                                      !.edge_home = Some(RSub(ph, m[1][1])),
                                      !.edge_away = Some(RSub(RSub(One, ph), m[2][1]))]
                /\ idx' = idx /\ pc' = "pick"
    /\ UNCHANGED <<hist, ratings, ll, n, i, best, params, gi, events, rows, out, cfg, kin, kout>>

\* main, lines 128-153: the side, the minimum-edge filter, the stake, the record
PickEvent ==
    /\ pc = "pick"
    /\ \E l \in {PickSide(loc)} :
         IF ~ClearsMin(l.edge[1], cfg.EDGE_MIN)
         THEN loc' = [l EXCEPT !.stage = "below_min"] /\ rows' = rows
         ELSE \E f \in {kelly_fraction(l.p[1], l.price[1], cfg.KELLY_FACTOR)} :
                \E l6 \in {[l EXCEPT !.stage = "emitted", !.stake_frac = Some(f)]} :
                   loc' = l6 /\ rows' = Append(rows, Record(l6))
    /\ idx' = idx + 1 /\ pc' = "loop"
    /\ UNCHANGED <<hist, ratings, ll, n, i, best, params, gi, events, out, cfg, kin, kout>>

\* main, lines 155-162: DataFrame(rows).sort_values(...) raises KeyError on the
\* column-less frame of no rows; otherwise the sorted frame is saved
Sort ==
    /\ pc = "loop" /\ idx = Len(events)
    /\ IF rows = <<>>
       THEN pc' = "raised" /\ out' = out
       ELSE pc' = "done" /\ out' = SortValues(rows)
    /\ UNCHANGED <<hist, ratings, ll, n, i, best, params, gi, events, idx, rows, loc, cfg, kin, kout>>

\* a call of kelly_fraction
KellyCall ==
    /\ pc = "kelly"
    /\ kout' = Some(kelly_fraction(kin.p, kin.odds, kin.k))
    /\ pc' = "returned"
    /\ UNCHANGED <<hist, ratings, ll, n, i, best, params, gi, events, idx, rows, loc, out, cfg, kin>>

(***************************************************************************)
(* Specifications.                                                         *)
(***************************************************************************)
Rest ==
    /\ events = <<>> /\ idx = 0 /\ rows = <<>> /\ loc = NoLocals /\ out = <<>>
    /\ kin = [p |-> Zero, odds |-> 0, k |-> Zero] /\ kout = None

\* main, once the history has been fetched
Init ==
    /\ pc = "start"
    /\ hist \in TrainHists
    /\ cfg \in Configs
    /\ ratings = <<>> /\ ll = 0 /\ n = 0 /\ i = 0
    /\ best = None /\ params = Idle /\ gi = 0
    /\ Rest

Next ==
    \/ NoHistory \/ CallTune \/ TuneStep \/ TuneReturn \/ EloStep \/ EloReturn
    \/ FetchOdds \/ FetchOddsError \/ ScanEvent \/ PriceEvent \/ PickEvent \/ Sort

Spec == Init /\ [][Next]_vars

\* tune_elo(df) and then run_elo(df, K, HFA) on any history
InitElo ==
    /\ pc = "tune"
    /\ hist \in Histories
    /\ cfg = DefaultCfg
    /\ ratings = <<>> /\ ll = 0 /\ n = 0 /\ i = 0
    /\ best = TuneStart.best /\ params = TuneStart.params /\ gi = 0
    /\ Rest

NextElo == TuneStep \/ TuneReturn \/ EloStep \/ EloReturn

SpecElo == InitElo /\ [][NextElo]_vars

\* kelly_fraction on any arguments under any cap
KellyProbs == {Rat(a, ProbSteps) : a \in (-1)..(ProbSteps + 1)}
KellyOdds == {50 * j : j \in 0..OddsSteps}
KellyFactors == {Rat(-1, 2), Zero, Rat(1, 4), Rat(1, 2), One, Rat(2, 1)}
KellyCaps == {Zero, Rat(1, 100), Rat(2, 100), Rat(1, 4)}

InitKelly ==
    /\ pc = "kelly"
    /\ kin \in [p : KellyProbs, odds : KellyOdds, k : KellyFactors]
    /\ cfg \in {[DefaultCfg EXCEPT !.MAX_KELLY = c] : c \in KellyCaps}
    /\ kout = None
    /\ hist = <<>> /\ ratings = <<>> /\ ll = 0 /\ n = 0 /\ i = 0
    /\ best = None /\ params = Idle /\ gi = 0
    /\ events = <<>> /\ idx = 0 /\ rows = <<>> /\ loc = NoLocals /\ out = <<>>

NextKelly == KellyCall

SpecKelly == InitKelly /\ [][NextKelly]_vars

(***************************************************************************)
(* Claims.                                                                 *)
(***************************************************************************)
\* the valid prices (numeric, > 1.0) quoted to a side in the h2h markets
ValidQuotes(ev, name) ==
    {Quote(ev.bookmakers[k].markets[j], name)[1] :
        <<k, j>> \in {kj \in (1..Len(ev.bookmakers)) \X (1..1) :
            LET m == ev.bookmakers[kj[1]].markets[kj[2]]
            IN  m.key = "h2h" /\ Quote(m, name) # None /\ Quote(m, name)[1] > 100}}

SetMax(X) == CHOOSE x \in X : \A y \in X : y <= x
SetMin(X) == CHOOSE x \in X : \A y \in X : x <= y

\* the key of the first bookmaker, in input order, quoting price c to a side
FirstQuoting(ev, name, c) ==
    ev.bookmakers[SetMin({k \in 1..Len(ev.bookmakers) :
        LET m == ev.bookmakers[k].markets[1]
        IN  m.key = "h2h" /\ Quote(m, name) = <<c>>})].key

Unpriceable(ev) ==
    /\ ev.home # "" /\ ev.away # ""
    /\ (ValidQuotes(ev, ev.home) = {} \/ ValidQuotes(ev, ev.away) = {})

\* C1: every row run_elo processes leaves the sum of the home and the away
\* competitor's ratings (1500.0 for one not yet rated) as it was
C1_ZeroSum ==
    [][(pc = "replay" /\ i' = i + 1) =>
        LET r == hist[i + 1]
        IN  Get(ratings', r.home) + Get(ratings', r.away)
              = Get(ratings, r.home) + Get(ratings, r.away)]_vars

\* C2: main never raises once the history and the events have been obtained
C2_NeverRaises == pc # "raised"

\* C3 as stated: in the output an earlier kickoff instant comes first whatever
\* the edges, and of two records with the same kickoff instant the one with
\* the larger unrounded edge comes first
C3_OrderByInstantAndRawEdge ==
    pc = "done" =>
        \A a \in 1..Len(out) : \A b \in 1..Len(out) :
            /\ out[a].ko < out[b].ko => a < b
            /\ (out[a].ko = out[b].ko /\ RLt(out[b].edge, out[a].edge)) => a < b

\* C3 amended: the output is ordered by the written kickoff string (AEST, to
\* the minute) and, within one kickoff string, by descending written edge
\* (rounded to 4 decimals)
C3_OrderByWrittenColumns ==
    pc = "done" =>
        /\ Len(out) = Len(rows)
        /\ \A a \in 1..Len(out) : \A b \in 1..Len(out) :
            /\ out[a].Kickoff < out[b].Kickoff => a < b
            /\ (out[a].Kickoff = out[b].Kickoff /\ RLt(out[b].Edge, out[a].Edge))
                   => a < b

\* two contests kicking off in the same minute at different instants, the
\* later one with the larger edge, come out in the other order than collected
C3_Witness ==
    /\ pc = "done" /\ Len(out) = 2
    /\ out[1] = rows[2] /\ out[2] = rows[1]
    /\ out[1].Kickoff = out[2].Kickoff /\ out[1].ko > out[2].ko

\* the mean log-loss of the g-th candidate on the history
LossOf(g) == run_elo(hist, Candidate(g).K, Candidate(g).HFA).loss

\* C4: after gi candidates tune_elo holds the first candidate, in the order K
\* outer and HFA inner, that attains the least loss among them
C4_FirstArgmin ==
    ((pc = "tune" \/ (pc = "replay" /\ i = 0)) /\ gi > 0) =>
        LET L == [g \in 1..gi |-> LossOf(g)]
        IN  \E g \in 1..gi :
                /\ params = Candidate(g) /\ best = <<L[g]>>
                /\ \A h \in 1..gi : L[g] <= L[h]
                /\ \A h \in 1..(g - 1) : L[h] > L[g]

\* tune_elo returned the first of several candidates with the least loss
C4_Witness ==
    /\ pc = "replay" /\ hist # <<>>
    /\ params = Candidate(1)
    /\ LossOf(1) = LossOf(GridSize - 2)
    /\ LossOf(2) > LossOf(1)

C6_UnpriceableSkipped ==
    [][(pc \in {"loop", "devig", "pick"} /\ idx < Len(events)
        /\ Unpriceable(events[idx + 1])) =>
          /\ rows' = rows
          /\ pc' \in {"loop", "devig"}
          /\ idx' = idx + 1 => loc'.stage \in {"no_price", "no_devig"}
          /\ loc'.stage = "no_devig" => devig_two_way(loc.best_home, loc.best_away)
                                           = <<None, None>>]_vars

\* an event whose only home quote is the invalid 1.00 was skipped by the de-vig
C6_Witness ==
    /\ pc = "loop" /\ idx = 1 /\ loc.stage = "no_devig"
    /\ Unpriceable(events[1])
    /\ loc.best_home = <<100>> /\ loc.best_away # None /\ loc.best_away[1] > 100
    /\ rows = <<>>

\* C7: an event that reaches the de-vig with a valid price for each side has
\* as home (away) price the largest valid home (away) price of its h2h
\* markets, and as book of each side the first bookmaker quoting that price
C7_BestOfMarket ==
    (pc \in {"devig", "pick"}
     /\ ValidQuotes(events[idx + 1], events[idx + 1].home) # {}
     /\ ValidQuotes(events[idx + 1], events[idx + 1].away) # {}) =>
        LET ev == events[idx + 1]
            mh == SetMax(ValidQuotes(ev, ev.home))
            ma == SetMax(ValidQuotes(ev, ev.away))
        IN  /\ loc.best_home = <<mh>> /\ loc.best_away = <<ma>>
            /\ loc.book_h = <<FirstQuoting(ev, ev.home, mh)>>
            /\ loc.book_a = <<FirstQuoting(ev, ev.away, ma)>>

\* two bookmakers quote the same best home price and the second the better
\* away price: the home book is the first, the away book the second
C7_Witness ==
    /\ pc = "devig" /\ Len(events[idx + 1].bookmakers) = 2
    /\ events[idx + 1].home # events[idx + 1].away
    /\ loc.book_h = <<BookKeys[1]>> /\ loc.book_a = <<BookKeys[2]>>
    /\ Quote(events[idx + 1].bookmakers[2].markets[1], events[idx + 1].home)
         = loc.best_home
    /\ events[idx + 1].bookmakers[2].markets[1].key = "h2h"

\* C8: for a priced contest HOME is picked when edge_home >= edge_away and
\* AWAY otherwise; one record, of the picked side, is appended exactly when
\* that side's edge is >= EDGE_MIN; nothing else appends or removes a record
C8_PickAndThreshold ==
    [][/\ pc \in {"loop", "devig"} => rows' = rows
       /\ pc = "pick" =>
            LET home == RLe(loc.edge_away[1], loc.edge_home[1])
                edge == IF home THEN loc.edge_home[1] ELSE loc.edge_away[1]
            IN  /\ loc'.side = IF home THEN <<"HOME">> ELSE <<"AWAY">>
                /\ IF RLe(cfg.EDGE_MIN, edge)
                   THEN /\ Len(rows') = Len(rows) + 1
                        /\ SubSeq(rows', 1, Len(rows)) = rows
                        /\ LET rec == rows'[Len(rows')]
                           IN  /\ rec.Match = <<loc.home[1], loc.away[1]>>
                               /\ rec.Pick = IF home THEN <<"HOME", loc.home[1]>>
                                                     ELSE <<"AWAY", loc.away[1]>>
                               /\ rec.BestOdds = IF home THEN loc.best_home[1]
                                                         ELSE loc.best_away[1]
                               /\ rec.Book = IF home THEN loc.book_h[1]
                                                     ELSE loc.book_a[1]
                               /\ rec.ModelP = Round(IF home THEN loc.p_home[1]
                                                              ELSE loc.p_away[1], 4)
                               /\ rec.MarketP = Round(IF home THEN loc.m_home[1]
                                                               ELSE loc.m_away[1], 4)
                               /\ rec.edge = edge
                   ELSE rows' = rows]_vars

\* both edges are equal (zero): HOME was picked, and nothing was emitted
C8_Witness ==
    /\ loc.stage = "below_min" /\ pc = "loop"
    /\ loc.edge_home = loc.edge_away
    /\ loc.side = <<"HOME">>

\* C9: the two edges are negations of each other, so the picked side's edge
\* is never negative, the edges are never both negative, and at most one of
\* them reaches a positive EDGE_MIN
C9_EdgesNegate ==
    /\ loc.stage \in {"priced", "below_min", "emitted"} =>
         /\ RAdd(loc.edge_home[1], loc.edge_away[1]) = Zero
         /\ ~(RLt(loc.edge_home[1], Zero) /\ RLt(loc.edge_away[1], Zero))
         /\ RLt(Zero, cfg.EDGE_MIN) =>
              ~(RLe(cfg.EDGE_MIN, loc.edge_home[1])
                /\ RLe(cfg.EDGE_MIN, loc.edge_away[1]))
    /\ loc.stage \in {"below_min", "emitted"} => RLe(Zero, loc.edge[1])

\* AWAY was picked and emitted against a negative home edge
C9_Witness ==
    /\ loc.stage = "emitted" /\ loc.side = <<"AWAY">>
    /\ RLt(loc.edge_home[1], Zero) /\ RLt(Zero, loc.edge[1])

\* C10 as stated: with positive KELLY_FACTOR, MAX_KELLY and EDGE_MIN every
\* emitted record carries a strictly positive stake fraction
C10_PositiveStake ==
    (loc.stage = "emitted" /\ RLt(Zero, cfg.KELLY_FACTOR)
     /\ RLt(Zero, cfg.MAX_KELLY) /\ RLt(Zero, cfg.EDGE_MIN)) =>
        RLt(Zero, loc.stake_frac[1])

\* C10 amended: the stake fraction of an emitted record is never negative,
\* and it is strictly positive exactly when the model probability times the
\* picked side's raw best price exceeds 1
C10_StakeSign ==
    (loc.stage = "emitted" /\ RLt(Zero, cfg.KELLY_FACTOR)
     /\ RLt(Zero, cfg.MAX_KELLY) /\ RLt(Zero, cfg.EDGE_MIN)) =>
        /\ RLe(Zero, loc.stake_frac[1])
        /\ RLt(Zero, loc.stake_frac[1])
             <=> RLt(One, RMul(loc.p[1], Price(loc.price[1])))

\* a record was emitted on an edge >= EDGE_MIN with a zero stake fraction
C10_Witness ==
    /\ loc.stage = "emitted" /\ RLe(cfg.EDGE_MIN, loc.edge[1])
    /\ RLt(Zero, cfg.EDGE_MIN) /\ RLt(Zero, cfg.KELLY_FACTOR)
    /\ RLt(Zero, cfg.MAX_KELLY)
    /\ loc.stake_frac = <<Zero>>
    /\ rows # <<>> /\ rows[Len(rows)].KellyPct = Zero

====
